---- MODULE Spec2Model ----
(***************************************************************************)
(* Model of the keg-cli tap registry (tasks/tap/link.js) and of the task   *)
(* resolver (utils/task/findTask.js).                                      *)
(*                                                                         *)
(* linkTap is an async handler: it reads the link of its name and writes    *)
(* the link at its end, and is suspended at each await in between; every   *)
(* resumption is a step, and calls that are in flight together interleave  *)
(* at these steps.                                                         *)
(* findTask is taken step by step so that the order of its steps can be    *)
(* observed; it runs when no registration is in flight.                    *)
(***************************************************************************)
EXTENDS Naturals, Integers, Sequences, FiniteSets, Bags, TLC

(***************************************************************************)
(* Bounds                                                                  *)
(***************************************************************************)
\* longest option list handed to findTask
MaxOpts == 2

\* most linkTap calls made in one run of the program
MaxCalls == 2

(***************************************************************************)
(* Values                                                                  *)
(***************************************************************************)
\* names a tap can be linked under ("build" is also a built-in task name)
Names == {"mytap", "build"}

\* the locations a link can be registered at; "" is the empty (falsy) string
Locations == {"", "/a", "/b"}

\* a property that is not set on an object (undefined)
NoPath == "undefined"
NoTasks == <<>>

\* JS truthiness of a path value
Truthy(p) == p # "" /\ p # NoPath

\* what findPathByName / checkPathExists see under a tap's location
FsStates == {"none", "folder", "index"}

\* path.join(foundPath, 'index.js') for the tasks folder found under loc
IndexFile(loc) == <<loc, "tasks", "index.js">>

\* get(globalConfig, `${TAP_LINKS}.${name}`) when nothing is stored
Absent == [exists |-> FALSE, path |-> NoPath, tasks |-> NoTasks]

TapObj(p, t) == [exists |-> TRUE, path |-> p, tasks |-> t]

NoLinks == [n \in Names |-> Absent]

\* the tap-links container: absent, not an object, or a mapping
Container(k, l) == [kind |-> k, links |-> l]

\* option tokens of a command line; the last one may ask for help
Tokens == {"--help", "--verbose", "env=dev"}
HelpFlags == {"--help"}

\* the token a task with a required option needs
RequiredToken == "env=dev"

\* the option lists of at most n tokens; a command line gives an option once
RECURSIVE SeqsUpTo(_)
SeqsUpTo(n) ==
  IF n = 0 THEN {<<>>}
  ELSE LET shorter == SeqsUpTo(n - 1)
           longest == {q \in shorter : Len(q) = n - 1}
       IN  shorter \cup
             UNION {{Append(s, t) : t \in {u \in Tokens : \A i \in 1..Len(s) : s[i] # u}} : s \in longest}

OptionLists == SeqsUpTo(MaxOpts)

\* what can be typed as a command: the tap names and an unknown word
Commands == Names \cup {"zzz"}

\* names of task definitions
TaskNames == {"tap", "build", "deploy"}

\* a TaskDefinition: where it comes from, whether it asks for injection,
\* whether it declares a required option
TaskDef(s, n, i, r) == [src |-> s, name |-> n, inject |-> i, required |-> r]
NoTask == TaskDef("none", "", FALSE, FALSE)

\* the built-in task set: "tap" is the generic handler, "build" an ordinary task
BaseTasks(i, r) ==
  [n \in TaskNames |->
     CASE n = "tap" -> TaskDef("base", "tap", i, r)
       [] n = "build" -> TaskDef("base", "build", FALSE, FALSE)
       [] OTHER -> NoTask]

\* a task set handed to findTask that has no task named tap
TasksWithoutTap == [BaseTasks(FALSE, FALSE) EXCEPT !["tap"] = NoTask]

BaseTaskSets ==
  {BaseTasks(FALSE, FALSE), BaseTasks(TRUE, FALSE), BaseTasks(FALSE, TRUE), TasksWithoutTap}

\* what a tap's task module can export: a new task, or its own "tap" and "build"
CustomTaskSets ==
  { [n \in TaskNames |-> IF n = "deploy" THEN TaskDef("custom", "deploy", FALSE, FALSE) ELSE NoTask],
    [n \in TaskNames |->
       CASE n = "tap" -> TaskDef("custom", "tap", TRUE, FALSE)
         [] n = "build" -> TaskDef("custom", "build", FALSE, FALSE)
         [] OTHER -> NoTask] }

\* no task mapping
NoCustom == [n \in TaskNames |-> NoTask]

\* what require(taskFile) gives: a mapping, a function, or a fault on load or on call
ModuleKinds == {"static", "func", "throwLoad", "throwCall"}

\* what a faulting module throws or rejects with: an Error (or any other value that
\* has properties), or undefined / null
Thrown == {"error", "nullish"}

\* parsed parameters: the tap parameter, and whether the parser has run
Params(t, p) == [tap |-> t, parsed |-> p]
NoParams == Params("", FALSE)

\* a task-data object { task, options, params } (truthy FALSE: the value false);
\* injected is the path the Service Injector attached
TaskData(ok, t, o, p, i) == [truthy |-> ok, task |-> t, options |-> o, params |-> p, injected |-> i]
False == TaskData(FALSE, NoTask, <<>>, NoParams, NoPath)
EmptyObj == TaskData(TRUE, NoTask, <<>>, NoParams, NoPath)

\* the awaits a linkTap call is suspended at, by what is awaited: ensureAddLink
\* (buildTapObj line 106), findPathByName and checkPathExists (checkCustomTaskFile
\* lines 64 and 75), checkCustomTaskFile (buildTapObj line 114) and buildTapObj
\* (linkTap line 136)
Awaits == {"ensureAddLink", "findPathByName", "checkPathExists", "checkCustomTaskFile",
           "buildTapObj"}

\* a linkTap call in flight: its params, the link it read at line 104, the
\* operator's answer and what was found under the tap's directory once they are
\* there, and the await it is suspended at
Call(at, name, location, silent, currentTap, answer, fsState) ==
  [at |-> at, name |-> name, location |-> location, silent |-> silent,
   currentTap |-> currentTap, answer |-> answer, fsState |-> fsState]

\* no registration has returned
NoCall ==
  [name |-> "none", location |-> "", silent |-> FALSE, answer |-> FALSE, fsState |-> "none",
   prompted |-> FALSE, returned |-> [ok |-> FALSE, tapObj |-> Absent],
   addLinkCalled |-> FALSE, saved |-> FALSE, canceledMsg |-> FALSE, kindBefore |-> "absent",
   before |-> Absent]

(***************************************************************************)
(* State                                                                   *)
(***************************************************************************)
VARIABLES
  globalConfig,   \* the in-memory GlobalConfig (its tap-links container)
  disk,           \* the GlobalConfig as last persisted
  inflight,       \* the linkTap calls that have been made and have not returned (a bag)
  made,           \* how many linkTap calls were made
  last,           \* what the linkTap call that returned in the latest step did (else NoCall)
  pc,             \* where the running findTask is ("idle": no resolution is running)
  command,        \* findTask's command
  options,        \* the caller's option list handed to findTask
  tasks,          \* the caller's task set handed to findTask
  allTasks,       \* checkLinkedTaps' allTasks
  taskData,       \* checkLinkedTaps' taskData
  tapTaskData,    \* findTask's tapTaskData
  foundTask,      \* findTask's foundTask
  result,         \* what findTask returned
  exitCode,       \* the status process.exit was called with (0: not called)
  moduleKind,     \* what require(taskFile) gave in this resolution ("none": not called)
  customTasks,    \* the task mapping of the module that was loaded (NoCustom: none)
  helpArg,        \* the help flag handed to validateTask (FALSE before the call)
  trace           \* the collaborators called by this resolution, in order

resVars == <<pc, command, options, tasks, allTasks, taskData, tapTaskData, foundTask, result,
            exitCode, moduleKind, customTasks, helpArg, trace>>
regVars == <<globalConfig, disk, inflight, made, last>>
vars == <<globalConfig, disk, inflight, made, last, pc, command, options, tasks, allTasks, taskData, tapTaskData,
          foundTask, result, exitCode, moduleKind, customTasks, helpArg, trace>>

(***************************************************************************)
(* Tap registry: tasks/tap/link.js                                         *)
(***************************************************************************)
\* get(globalConfig, `${TAP_LINKS}.${name}`)
getLink(config, name) ==
  IF config.kind = "map" /\ name \in DOMAIN config.links THEN config.links[name] ELSE Absent

\* a variant of ensureAddLink that does not wait for the operator's answer
ensureAddLink_ignoreAnswer(currentTap, tapPath, silent, answer) ==
  IF currentTap.exists /\ Truthy(tapPath)
    THEN ~silent
    ELSE TRUE

\* ensureAddLink: answer is what ask.confirm resolves to
ensureAddLink(currentTap, tapPath, silent, answer) ==
  IF currentTap.exists /\ Truthy(tapPath)
    THEN (~silent) /\ answer
    ELSE TRUE

\* whether ensureAddLink reaches ask.confirm
prompts(currentTap, tapPath, silent) ==
  currentTap.exists /\ Truthy(tapPath) /\ ~silent

\* addGlobalConfigProp(globalConfig, `${TAP_LINKS}.${name}`, tapObj): write, then save
addGlobalConfigProp(config, name, tapObj) ==
  [config |-> Container("map", [config.links EXCEPT ![name] = tapObj]), saved |-> TRUE]

\* a variant of addTapLink that only creates the container when it is missing
addTapLink_createOnly(config, name, tapObj) ==
  IF config.kind # "map"
    THEN [config |-> Container("map", NoLinks), saved |-> FALSE]
    ELSE addGlobalConfigProp(config, name, tapObj)

\* a variant of addTapLink that sets the container to an empty mapping every time
addTapLink_alwaysReset(config, name, tapObj) ==
  addGlobalConfigProp(Container("map", NoLinks), name, tapObj)

\* addTapLink: ensure the container is an object, then add the link
addTapLink(config, name, tapObj) ==
  LET ensured == IF config.kind # "map" THEN Container("map", NoLinks) ELSE config
  IN  addGlobalConfigProp(ensured, name, tapObj)

\* checkCustomTaskFile: false / undefined (the result of Logger.warn) / index file,
\* the first two being falsy
checkCustomTaskFile(tapObj, fsState) ==
  IF fsState = "index" THEN IndexFile(tapObj.path) ELSE NoTasks

\* a variant of checkTapLocation that keeps a path already set
checkTapLocation_keepPath(tapObj, location) ==
  IF ~Truthy(tapObj.path)
    THEN [tapObj EXCEPT !.path = location]
    ELSE tapObj

\* checkTapLocation
checkTapLocation(tapObj, location) ==
  IF ~Truthy(tapObj.path) \/ tapObj.path # location
    THEN [tapObj EXCEPT !.path = location]
    ELSE tapObj

\* a variant without the copy: checkTapLocation writes to the stored link
storedAfterBuild_noCopy(currentTap, tapObj) ==
  IF currentTap.exists THEN tapObj ELSE currentTap

\* buildTapObj line 111: checkTapLocation is handed { ...currentTap }, a copy, so
\* the object that line 104 read from the config is what it was
storedAfterBuild(currentTap, tapObj) == currentTap

\* the config when the object read under name becomes obj: the entry is that
\* object as long as no other call has replaced it
writeThrough(config, name, currentTap, obj) ==
  IF currentTap.exists /\ getLink(config, name) = currentTap
    THEN Container("map", [config.links EXCEPT ![name] = obj])
    ELSE config

\* buildTapObj from line 106 on, currentTap being what line 104 read: ok is FALSE
\* where the code returns false
buildTapObj(currentTap, silent, location, answer, fsState) ==
  LET addLink == ensureAddLink(currentTap, location, silent, answer)
      \* { ...currentTap }: a copy, an empty object when there is no link
      tapObj == checkTapLocation([currentTap EXCEPT !.exists = TRUE], location)
      customTasksFile == checkCustomTaskFile(tapObj, fsState)
      built == IF customTasksFile # NoTasks
                 THEN [tapObj EXCEPT !.tasks = customTasksFile]
                 ELSE tapObj
  IN  IF ~addLink
        THEN [ok |-> FALSE, tapObj |-> Absent]
        ELSE [ok |-> TRUE, tapObj |-> built]

\* a variant of the cancel message with the negation of silent dropped
canceled_inverted(ok, silent) == (~ok) /\ silent

\* linkTap lines 139-141: whether 'Tap link canceled!' is logged
canceled(ok, silent) == (~ok) /\ ~silent

\* the bag of calls in flight with call c replaced by d, and with c taken out
Resumed(c, d) == (inflight (-) SetToBag({c})) (+) SetToBag({d})
Returned(c) == inflight (-) SetToBag({c})

\* linkTap lines 136-141 once buildTapObj has its result: the link is added, or
\* the cancel message is logged, and the call returns.  The record is what the
\* call did.
linkTap(c) ==
  LET built == buildTapObj(c.currentTap, c.silent, c.location, c.answer, c.fsState)
      added == IF built.ok
                 THEN addTapLink(globalConfig, c.name, built.tapObj)
                 ELSE [config |-> globalConfig, saved |-> FALSE]
  IN  /\ globalConfig' = added.config
      /\ disk' = IF added.saved THEN added.config ELSE disk
      /\ inflight' = Returned(c)
      /\ last' = [name |-> c.name, location |-> c.location, silent |-> c.silent,
                  answer |-> c.answer, fsState |-> c.fsState,
                  prompted |-> prompts(c.currentTap, c.location, c.silent),
                  returned |-> built,
                  addLinkCalled |-> built.ok,
                  saved |-> added.saved,
                  canceledMsg |-> canceled(built.ok, c.silent),
                  kindBefore |-> globalConfig.kind,
                  before |-> c.currentTap]
      /\ UNCHANGED made

\* buildTapObj lines 106-114 once ensureAddLink has its value.  Without it
\* buildTapObj returns false, which linkTap waits for at line 136; with it line 111
\* runs and checkCustomTaskFile waits for findPathByName at line 64
afterEnsureAddLink(c, answer) ==
  IF ensureAddLink(c.currentTap, c.location, c.silent, answer)
    THEN LET tapObj == checkTapLocation([c.currentTap EXCEPT !.exists = TRUE], c.location)
         IN  /\ globalConfig' = writeThrough(globalConfig, c.name, c.currentTap,
                                             storedAfterBuild(c.currentTap, tapObj))
             /\ inflight' = Resumed(c, [c EXCEPT !.at = "findPathByName", !.answer = answer])
    ELSE /\ inflight' = Resumed(c, [c EXCEPT !.at = "buildTapObj", !.answer = answer])
         /\ UNCHANGED globalConfig

\* linkTap is called: buildTapObj reads the link of the name (line 104) and calls
\* ensureAddLink, which opens the prompt when it asks the operator; the call is
\* suspended at line 106
LinkTapStart ==
  /\ pc = "idle"
  /\ made < MaxCalls
  /\ \E name \in Names, location \in Locations, silent \in BOOLEAN :
       inflight' = inflight (+) SetToBag({Call("ensureAddLink", name, location, silent,
                                               getLink(globalConfig, name), FALSE, "none")})
  /\ made' = made + 1
  /\ last' = NoCall
  /\ UNCHANGED <<globalConfig, disk>>
  /\ UNCHANGED resVars

\* buildTapObj line 106 resumes with the value of ensureAddLink: the operator's
\* answer when the prompt was opened
EnsureAddLinkDone ==
  /\ pc = "idle"
  /\ \E c \in BagToSet(inflight) :
       /\ c.at = "ensureAddLink"
       /\ \E answer \in (IF prompts(c.currentTap, c.location, c.silent) THEN BOOLEAN ELSE {FALSE}) :
            afterEnsureAddLink(c, answer)
  /\ last' = NoCall
  /\ UNCHANGED <<disk, made>>
  /\ UNCHANGED resVars

\* checkCustomTaskFile line 64 resumes with what findPathByName found: without a
\* tasks folder it returns false (line 71), which buildTapObj waits for at line 114;
\* with one it waits for checkPathExists at line 75
FindPathByNameDone ==
  /\ pc = "idle"
  /\ \E c \in BagToSet(inflight) :
       /\ c.at = "findPathByName"
       /\ \E found \in BOOLEAN :
            inflight' = Resumed(c, IF found
                                     THEN [c EXCEPT !.at = "checkPathExists", !.fsState = "folder"]
                                     ELSE [c EXCEPT !.at = "checkCustomTaskFile", !.fsState = "none"])
  /\ last' = NoCall
  /\ UNCHANGED <<globalConfig, disk, made>>
  /\ UNCHANGED resVars

\* checkCustomTaskFile line 75 resumes with whether the index file exists, and
\* returns (lines 79-81); buildTapObj waits for that at line 114
CheckPathExistsDone ==
  /\ pc = "idle"
  /\ \E c \in BagToSet(inflight) :
       /\ c.at = "checkPathExists"
       /\ \E indexExists \in BOOLEAN :
            inflight' = Resumed(c, [c EXCEPT !.at = "checkCustomTaskFile",
                                             !.fsState = IF indexExists THEN "index" ELSE "folder"])
  /\ last' = NoCall
  /\ UNCHANGED <<globalConfig, disk, made>>
  /\ UNCHANGED resVars

\* buildTapObj line 114 resumes with the value of checkCustomTaskFile: line 115
\* sets the tasks of the copy and buildTapObj returns it, which linkTap waits for
\* at line 136
CheckCustomTaskFileDone ==
  /\ pc = "idle"
  /\ \E c \in BagToSet(inflight) :
       /\ c.at = "checkCustomTaskFile"
       /\ inflight' = Resumed(c, [c EXCEPT !.at = "buildTapObj"])
  /\ last' = NoCall
  /\ UNCHANGED <<globalConfig, disk, made>>
  /\ UNCHANGED resVars

\* linkTap line 136 resumes with the value of buildTapObj and runs to its end
BuildTapObjDone ==
  /\ pc = "idle"
  /\ \E c \in BagToSet(inflight) :
       /\ c.at = "buildTapObj"
       /\ linkTap(c)
  /\ UNCHANGED resVars

(***************************************************************************)
(* Collaborators of the resolver                                           *)
(***************************************************************************)
\* getTask(tasks, name, ...options): the task under name, the tokens passed through
getTask(taskSet, name, opts) ==
  TaskData(TRUE, IF name \in DOMAIN taskSet THEN taskSet[name] ELSE NoTask, opts, NoParams, NoPath)

\* hasHelpArg(options[options.length - 1])
hasHelpArg(opts) == Len(opts) > 0 /\ opts[Len(opts)] \in HelpFlags

\* parseArgs fails when a required option is missing; what it does without a task
\* object is not specified
parseArgsFails(data) ==
  IF data.task = NoTask
    THEN BOOLEAN
    ELSE {data.task.required /\ \A i \in 1..Len(data.options) : data.options[i] # RequiredToken}

\* parseArgs({ ...taskData, command, params: { tap } }, globalConfig): the preset
\* parameter is part of the parsed parameters
parseArgs(data, tap) == Params(tap, TRUE)

\* validateTask(task, null, hasHelp): falsy when there is no task object
validateTask(task, help) == task # NoTask

\* injectService({ taskData, app, injectPath })
injectService(data, app, injectPath) == [data EXCEPT !.injected = injectPath]

(***************************************************************************)
(* Task resolver: utils/task/findTask.js                                   *)
(***************************************************************************)
\* a variant of splice that deletes the element at start: splice(start, 1, item)
splice_deleteOne(s, start, item) ==
  LET n == Len(s)
      at == IF start < 0 THEN (IF n + start > 0 THEN n + start ELSE 0)
            ELSE (IF start < n THEN start ELSE n)
  IN  SubSeq(s, 1, at) \o <<item>> \o SubSeq(s, at + 2, n)

\* Array.prototype.splice(start, 0, item)
splice(s, start, item) ==
  LET n == Len(s)
      at == IF start < 0 THEN (IF n + start > 0 THEN n + start ELSE 0)
            ELSE (IF start < n THEN start ELSE n)
  IN  SubSeq(s, 1, at) \o <<item>> \o SubSeq(s, at + 1, n)

\* `tap=${ command }`
tapToken(cmd) == "tap=" \o cmd

\* a variant of the merge with the operands swapped: { ...tasks, ...args.tasks }
mergeTasks_baseWins(base, custom) ==
  [n \in TaskNames |-> IF base[n] # NoTask THEN base[n] ELSE custom[n]]

\* { ...args.tasks, ...tasks }
mergeTasks(base, custom) ==
  [n \in TaskNames |-> IF custom[n] # NoTask THEN custom[n] ELSE base[n]]

\* a variant of the link check that lets a built-in task of the same name win
linkReroutes_builtinFirst(tapObj) ==
  /\ tapObj.exists /\ Truthy(tapObj.path)
  /\ ~(command \in DOMAIN tasks /\ tasks[command] # NoTask)

\* a variant of the link check with the test inverted
linkReroutes_inverted(tapObj) == ~(tapObj.exists /\ Truthy(tapObj.path))

\* a variant of the link check that does not look at the path
linkReroutes_noPathCheck(tapObj) == tapObj.exists

\* checkLinkedTaps line 58: the link of the command reroutes the resolution
linkReroutes(tapObj) == tapObj.exists /\ Truthy(tapObj.path)

\* findTask is called
FindTaskStart ==
  /\ pc = "idle"
  /\ inflight = EmptyBag
  /\ \E c \in Commands, o \in OptionLists, t \in BaseTaskSets :
       /\ command' = c
       /\ options' = o
       /\ tasks' = t
  /\ pc' = "checkLinkedTaps"
  /\ allTasks' = BaseTasks(FALSE, FALSE)
  /\ taskData' = False
  /\ tapTaskData' = False
  /\ foundTask' = False
  /\ result' = False
  /\ exitCode' = 0
  /\ moduleKind' = "none"
  /\ customTasks' = NoCustom
  /\ helpArg' = FALSE
  /\ trace' = <<>>
  /\ last' = NoCall
  /\ UNCHANGED <<globalConfig, disk, inflight, made>>

\* checkLinkedTaps lines 55-62: look the command up in the tap links
CheckTapLink ==
  /\ pc = "checkLinkedTaps"
  /\ LET tapObj == getLink(globalConfig, command)
     IN  IF ~linkReroutes(tapObj)
           THEN /\ tapTaskData' = False
                /\ pc' = "findTask"
                /\ UNCHANGED allTasks
           ELSE IF tapObj.tasks = NoTasks
             THEN /\ allTasks' = tasks
                  /\ pc' = "getTask"
                  /\ UNCHANGED tapTaskData
             ELSE /\ pc' = "getCustomTasks"
                  /\ UNCHANGED <<allTasks, tapTaskData>>
  /\ trace' = Append(trace, "checkLink")
  /\ UNCHANGED <<regVars, command, options, tasks, taskData, foundTask, result, exitCode, moduleKind, customTasks, helpArg>>

\* getCustomTasks: what the module gives merged over the base tasks.  A fault lands
\* in the catch block, which reads err.message (line 36) before it calls
\* process.exit(1) (line 39): with err undefined or null that read throws, the exit
\* is not reached and the promise of getCustomTasks is rejected
getCustomTasks(kind, custom, err) ==
  IF kind \in {"throwLoad", "throwCall"}
    THEN IF err = "nullish"
           THEN [exit |-> 0, rejects |-> TRUE, tasks |-> tasks]
           ELSE [exit |-> 1, rejects |-> FALSE, tasks |-> tasks]
    ELSE [exit |-> 0, rejects |-> FALSE, tasks |-> mergeTasks(tasks, custom)]

\* checkLinkedTaps line 62: await getCustomTasks; its rejection leaves findTask
LoadCustomTasks ==
  /\ pc = "getCustomTasks"
  /\ \E kind \in ModuleKinds, custom \in CustomTaskSets, err \in Thrown :
       LET loaded == getCustomTasks(kind, custom, err)
       IN  /\ moduleKind' = kind
           /\ customTasks' = IF loaded.exit # 0 \/ loaded.rejects THEN NoCustom ELSE custom
           /\ IF loaded.exit # 0
                THEN /\ exitCode' = loaded.exit
                     /\ pc' = "exited"
                     /\ trace' = trace \o <<"load", "exit">>
                     /\ UNCHANGED allTasks
                ELSE IF loaded.rejects
                  THEN /\ pc' = "threw"
                       /\ trace' = Append(trace, "load")
                       /\ UNCHANGED <<allTasks, exitCode>>
                  ELSE /\ allTasks' = loaded.tasks
                       /\ pc' = "getTask"
                       /\ trace' = Append(trace, "load")
                       /\ UNCHANGED exitCode
  /\ UNCHANGED <<regVars, command, options, tasks, taskData, tapTaskData, foundTask, result, helpArg>>

\* checkLinkedTaps lines 71-74: copy the options, find the task named tap
GetTapTask ==
  /\ pc = "getTask"
  /\ taskData' = getTask(allTasks, "tap", options)
  /\ pc' = "parseArgs"
  /\ trace' = Append(trace, "getTap")
  /\ UNCHANGED <<regVars, command, options, tasks, allTasks, tapTaskData, foundTask, result, exitCode, moduleKind, customTasks, helpArg>>

\* a variant of the preset that names the rerouted task instead of the command
presetTap_taskName(cmd) == "tap"

\* checkLinkedTaps line 81: params: { tap: command }
presetTap(cmd) == cmd

\* a variant of the await in which the parser's error is caught and the resolution goes on
afterParseArgs_caught(fails) == "splice"

\* checkLinkedTaps line 78: the parser's error is not caught, it leaves the resolver
afterParseArgs(fails) == IF fails THEN "threw" ELSE "splice"

\* checkLinkedTaps lines 78-82: parse the arguments with the tap parameter set
ParseArgs ==
  /\ pc = "parseArgs"
  /\ \E fails \in parseArgsFails(taskData) :
       /\ pc' = afterParseArgs(fails)
       /\ IF fails
            THEN UNCHANGED taskData
            ELSE taskData' = [taskData EXCEPT !.params = parseArgs(taskData, presetTap(command))]
  /\ trace' = Append(trace, "parseArgs")
  /\ UNCHANGED <<regVars, command, options, tasks, allTasks, tapTaskData, foundTask, result, exitCode, moduleKind, customTasks, helpArg>>

\* a variant of the insertion that pushes the token at the end
insertTapToken_push(opts, cmd) == Append(opts, tapToken(cmd))

\* checkLinkedTaps line 85
insertTapToken(opts, cmd) == splice(opts, Len(opts) - 1, tapToken(cmd))

\* a variant of the injection test with the negation dropped
injects_inverted(data) == ~data.task.inject

\* checkLinkedTaps line 89: get(taskData, 'task.inject')
injects(data) == data.task.inject

\* a variant without the copy: taskData.options is the array the caller passed
sharesCallerOptions_noCopy == TRUE

\* checkLinkedTaps lines 70-74: the options are copied before getTask is called,
\* so taskData.options is not the caller's array
sharesCallerOptions == FALSE

\* checkLinkedTaps lines 85-90: insert the tap token; return unless the task injects
AddTapOption ==
  /\ pc = "splice"
  /\ LET data == [taskData EXCEPT !.options = insertTapToken(taskData.options, command)]
     IN  /\ taskData' = data
         /\ IF ~injects(data)
              THEN /\ tapTaskData' = data
                   /\ pc' = "findTask"
              ELSE /\ pc' = "injectService"
                   /\ UNCHANGED tapTaskData
         \* the splice writes to taskData.options only, unless that is the caller's array
         /\ options' = IF sharesCallerOptions THEN data.options ELSE options
  /\ trace' = Append(trace, "splice")
  /\ UNCHANGED <<regVars, command, tasks, allTasks, foundTask, result, exitCode, moduleKind, customTasks, helpArg>>

\* checkLinkedTaps lines 91-95: the injector's result is returned; its failure propagates
InjectService ==
  /\ pc = "injectService"
  /\ \E fails \in BOOLEAN :
       IF fails
         THEN /\ pc' = "threw"
              /\ UNCHANGED tapTaskData
         ELSE /\ tapTaskData' = injectService(taskData, command, getLink(globalConfig, command).path)
              /\ pc' = "findTask"
  /\ trace' = Append(trace, "inject")
  /\ UNCHANGED <<regVars, command, options, tasks, allTasks, taskData, foundTask, result, exitCode, moduleKind, customTasks, helpArg>>

\* a variant of findTask that falls back when the tap path found no task
directLookup_whenNoTask(tapData) == ~tapData.truthy \/ tapData.task = NoTask

\* findTask line 114: tapTaskData || getTask(tasks, command, ...options)
directLookup(tapData) == ~tapData.truthy

LookupTask ==
  /\ pc = "findTask"
  /\ IF directLookup(tapTaskData)
       THEN /\ foundTask' = getTask(tasks, command, options)
            /\ trace' = Append(trace, "direct")
       ELSE /\ foundTask' = tapTaskData
            /\ UNCHANGED trace
  /\ pc' = "validateTask"
  /\ UNCHANGED <<regVars, command, options, tasks, allTasks, taskData, tapTaskData, result, exitCode, moduleKind, customTasks, helpArg>>

\* a variant of the final check that returns the task data without validating it
validated_unchecked(found, opts) ==
  IF found.task # NoTask THEN found ELSE EmptyObj

\* findTask lines 117-124
validated(found, opts) ==
  LET data == IF found.task # NoTask THEN found ELSE EmptyObj
  IN  IF validateTask(data.task, hasHelpArg(opts)) THEN data ELSE False

ValidateTask ==
  /\ pc = "validateTask"
  /\ result' = validated(foundTask, options)
  /\ helpArg' = hasHelpArg(options)
  /\ pc' = "done"
  /\ trace' = Append(trace, "validate")
  /\ UNCHANGED <<regVars, command, options, tasks, allTasks, taskData, tapTaskData, foundTask, exitCode, moduleKind, customTasks>>

\* the process ends: the next command is run by a new process
ProcessEnd ==
  /\ pc \in {"done", "exited", "threw"}
  /\ pc' = "idle"
  /\ command' = "zzz"
  /\ options' = <<>>
  /\ tasks' = BaseTasks(FALSE, FALSE)
  /\ allTasks' = BaseTasks(FALSE, FALSE)
  /\ taskData' = False
  /\ tapTaskData' = False
  /\ foundTask' = False
  /\ result' = False
  /\ exitCode' = 0
  /\ moduleKind' = "none"
  /\ customTasks' = NoCustom
  /\ helpArg' = FALSE
  /\ trace' = <<>>
  /\ UNCHANGED regVars

(***************************************************************************)
(* Specification                                                           *)
(***************************************************************************)
\* the links of the config a session starts with are links that linkTap writes
InitLinks == {Absent, TapObj("", NoTasks), TapObj("/a", NoTasks), TapObj("/a", IndexFile("/a"))}

InitConfigs ==
  {Container("absent", NoLinks), Container("scalar", NoLinks)}
    \cup {Container("map", l) : l \in [Names -> InitLinks]}

\* the resolver at rest
ResolverIdle ==
  /\ pc = "idle"
  /\ command = "zzz"
  /\ options = <<>>
  /\ tasks = BaseTasks(FALSE, FALSE)
  /\ allTasks = BaseTasks(FALSE, FALSE)
  /\ taskData = False
  /\ tapTaskData = False
  /\ foundTask = False
  /\ result = False
  /\ exitCode = 0
  /\ moduleKind = "none"
  /\ customTasks = NoCustom
  /\ helpArg = FALSE
  /\ trace = <<>>

Init ==
  /\ globalConfig \in InitConfigs
  /\ disk = globalConfig
  /\ inflight = EmptyBag
  /\ made = 0
  /\ last = NoCall
  /\ ResolverIdle

\* the steps of the registry
NextLink ==
  \/ LinkTapStart
  \/ EnsureAddLinkDone
  \/ FindPathByNameDone
  \/ CheckPathExistsDone
  \/ CheckCustomTaskFileDone
  \/ BuildTapObjDone

\* the steps of the resolver
NextFind ==
  \/ FindTaskStart
  \/ CheckTapLink
  \/ LoadCustomTasks
  \/ GetTapTask
  \/ ParseArgs
  \/ AddTapOption
  \/ InjectService
  \/ LookupTask
  \/ ValidateTask
  \/ ProcessEnd

Next == NextLink \/ NextFind

Spec == Init /\ [][Next]_vars

\* the registry on its own: the linkTap calls of a session
SpecLink == Init /\ [][NextLink]_vars

\* every link linkTap can leave under a name: a path that is one of the locations,
\* and no tasks entry or the index file found under a location, this one or an
\* earlier one
StoredLinks ==
  {Absent} \cup {TapObj(p, t) : p \in Locations, t \in {NoTasks} \cup {IndexFile(l) : l \in Locations}}

StoredConfigs ==
  {Container("absent", NoLinks), Container("scalar", NoLinks)}
    \cup {Container("map", l) : l \in [Names -> StoredLinks]}

\* a process that resolves a command starts from the config that was saved
InitFind ==
  /\ globalConfig \in StoredConfigs
  /\ disk = globalConfig
  /\ inflight = EmptyBag
  /\ made = 0
  /\ last = NoCall
  /\ ResolverIdle

\* the resolver on its own: the findTask calls over every config the registry leaves
SpecFind == InitFind /\ [][NextFind]_vars

(***************************************************************************)
(* Properties                                                              *)
(***************************************************************************)
Contains(s, e) == \E i \in 1..Len(s) : s[i] = e

\* s without its i-th element
RemoveAt(s, i) == SubSeq(s, 1, i - 1) \o SubSeq(s, i + 1, Len(s))

\* the link stored under the command being resolved
commandLink == getLink(globalConfig, command)

\* the command is a key of the tap links and its link has a path
linkedWithPath == commandLink.exists /\ commandLink.path # "" /\ commandLink.path # NoPath

\* the link stored under the name of the latest registration
lastLink == getLink(globalConfig, last.name)

\* the running resolution went through the tap path
rerouted == Contains(trace, "getTap")

\* the command names a task of the base set
isBuiltin(cmd) == cmd \in DOMAIN tasks /\ tasks[cmd] # NoTask

\* the steps that only a rerouted resolution takes
TapPathEvents == {"load", "getTap", "parseArgs", "splice", "inject"}

\* C1 (as stated): a registration with silent = true of a name that has a link,
\* at any location other than the stored path, leaves the stored path as it was.
C1_SilentNeverOverwrites ==
  [][(last'.name # "none" /\ last'.silent
        /\ getLink(globalConfig, last'.name).exists
        /\ last'.location # getLink(globalConfig, last'.name).path)
       => getLink(globalConfig', last'.name).path = getLink(globalConfig, last'.name).path]_vars

\* C2: a declined prompt makes buildTapObj return false; addTapLink is not called,
\* nothing is saved, and the call leaves the config (so the link's path and tasks)
\* as it was.
C2_DeclinedNoMutation ==
  [][(last'.prompted /\ ~last'.answer)
       => /\ ~last'.returned.ok
          /\ ~last'.addLinkCalled
          /\ ~last'.saved
          /\ globalConfig' = globalConfig
          /\ disk' = disk
          /\ getLink(globalConfig', last'.name) = getLink(globalConfig, last'.name)]_vars

C2_Witness ==
  /\ last.prompted /\ ~last.answer /\ ~last.silent
  /\ last.location # last.before.path
  /\ last.before.tasks # NoTasks
  /\ last.canceledMsg
  /\ lastLink = last.before

\* C3: a command that is a linked tap (with a path) and also the name of a built-in
\* task is never looked up directly; the task resolved is the one under "tap".
C3_TapLinkBeforeBuiltin ==
  (pc \notin {"idle", "checkLinkedTaps"} /\ linkedWithPath /\ isBuiltin(command))
    => /\ ~Contains(trace, "direct")
       /\ pc \in {"validateTask", "done"} =>
            (foundTask.task = allTasks["tap"] /\ foundTask.task # tasks[command])
       /\ pc = "done" =>
            (result.task = allTasks["tap"] /\ result.task # tasks[command])

C3_Witness ==
  /\ pc = "done" /\ command = "build"
  /\ linkedWithPath
  /\ tasks["build"] # NoTask
  /\ result.truthy /\ result.task.name = "tap"

\* C4: when the option list ends with a help flag, the rerouted invocation has
\* tap=<command> second to last, the help flag last, and the other tokens in order.
C4_HelpFlagStaysLast ==
  (pc = "done" /\ rerouted /\ hasHelpArg(options))
    => LET r == tapTaskData.options
       IN  /\ tapTaskData.truthy
           /\ Len(r) = Len(options) + 1
           /\ r[Len(r) - 1] = tapToken(command)
           /\ r[Len(r)] \in HelpFlags
           /\ RemoveAt(r, Len(r) - 1) = options
           /\ result.truthy => result.options = r

C4_Witness ==
  /\ pc = "done" /\ rerouted /\ result.truthy
  /\ Len(options) = MaxOpts
  /\ hasHelpArg(options)
  /\ result.options[Len(options)] = tapToken(command)

\* C5 (as stated): when the option list is not empty and does not end with a help
\* flag, tap=<command> is the last option of the rerouted invocation.
C5_TapTokenLast ==
  (pc = "done" /\ rerouted /\ result.truthy /\ Len(options) > 0 /\ ~hasHelpArg(options))
    => result.options[Len(result.options)] = tapToken(command)

\* C5 (amended): when the option list is not empty and does not end with a help
\* flag, tap=<command> is still inserted second to last: the caller's last token
\* stays last and the other tokens keep their order.
C5_TapTokenSecondToLast ==
  (pc = "done" /\ rerouted /\ Len(options) > 0 /\ ~hasHelpArg(options))
    => LET r == tapTaskData.options
       IN  /\ tapTaskData.truthy
           /\ Len(r) = Len(options) + 1
           /\ r[Len(r) - 1] = tapToken(command)
           /\ r[Len(r)] = options[Len(options)]
           /\ RemoveAt(r, Len(r) - 1) = options
           /\ result.truthy => result.options = r

C5_Witness ==
  /\ pc = "done" /\ command = "mytap" /\ rerouted
  /\ options = <<"--verbose">>
  /\ result.options = <<"tap=mytap", "--verbose">>

\* C6 (as stated): a task module that throws, on load or on call, ends the process
\* with a non-zero status; nothing of the resolution runs after it and no
\* invocation is produced.
C6_ModuleFaultIsFatal ==
  moduleKind \in {"throwLoad", "throwCall"}
    => /\ pc = "exited"
       /\ exitCode # 0
       /\ result = False
       /\ \A i \in 1..Len(trace) : trace[i] \in {"checkLink", "load", "exit"}

\* C7: addTapLink for a name with no link, whatever the tap-links container was,
\* stores the tap object under that name unchanged and saves the config.
C7_AddLinkRoundTrip ==
  (last.name # "none" /\ ~last.before.exists)
    => /\ last.addLinkCalled
       /\ lastLink = last.returned.tapObj
       /\ lastLink.path = last.location
       /\ last.saved
       /\ disk = globalConfig

C7_Witness ==
  /\ last.name # "none" /\ ~last.before.exists
  /\ last.kindBefore \in {"absent", "scalar"}
  /\ lastLink = TapObj("/b", IndexFile("/b"))

\* the link is what a confirmed call at location loc that saw fsState leaves
leftByCall(link, loc, fsState) ==
  /\ link.exists /\ link.path = loc
  /\ fsState = "index" => link.tasks = IndexFile(loc)

\* C8: a confirmed overwrite leaves the stored path equal to the new location, and
\* the identical call made on the link that such a call left, confirmed again,
\* leaves the stored link as the first call left it.
C8_ConfirmedOverwriteIdempotent ==
  [][(last'.prompted /\ last'.answer)
       => /\ last'.addLinkCalled /\ last'.saved
          /\ getLink(globalConfig', last'.name).path = last'.location
          /\ leftByCall(last'.before, last'.location, last'.fsState)
               => getLink(globalConfig', last'.name) = last'.before]_vars

C8_Witness ==
  /\ last.prompted /\ last.answer
  /\ last.location = "/b"
  /\ last.fsState = "folder"
  /\ leftByCall(last.before, "/b", "folder")
  /\ lastLink = TapObj("/b", IndexFile("/a"))
  /\ lastLink = last.before

\* C9: a link without a path (none, or an empty one) changes nothing: the resolution
\* takes none of the steps of the tap path and gives what the direct lookup of the
\* command in the base tasks gives.
C9_LinkWithoutPathIsInert ==
  (pc \notin {"idle", "checkLinkedTaps"} /\ commandLink.exists /\ ~Truthy(commandLink.path))
    => /\ \A i \in 1..Len(trace) : trace[i] \notin TapPathEvents
       /\ moduleKind = "none"
       /\ pc = "done" =>
            /\ trace = <<"checkLink", "direct", "validate">>
            /\ result = validated(getTask(tasks, command, options), options)
            /\ result.injected = NoPath
            /\ ~Contains(result.options, tapToken(command))

C9_Witness ==
  /\ pc = "done" /\ command = "build"
  /\ commandLink.exists /\ commandLink.path = "" /\ commandLink.tasks # NoTasks
  /\ result.truthy /\ result.task = tasks["build"]

\* C10: a resolution that found a link with a path never looks the command up
\* directly, whatever the tap path gives; the direct lookup is made in the base
\* tasks, so a task contributed by a tap never resolves an unlinked command.
C10_DirectLookupOnlyWithoutLink ==
  (pc # "idle")
    => /\ Contains(trace, "direct") =>
            /\ ~linkedWithPath
            /\ ~rerouted
            /\ foundTask = getTask(tasks, command, options)
       /\ (linkedWithPath /\ pc = "done") =>
            /\ ~Contains(trace, "direct")
            /\ foundTask = tapTaskData
       /\ (~linkedWithPath /\ pc = "done") => result.task.src # "custom"

C10_Witness ==
  /\ pc = "done" /\ linkedWithPath
  /\ tasks["tap"] = NoTask
  /\ ~result.truthy
  /\ trace = <<"checkLink", "getTap", "parseArgs", "splice", "validate">>

\* C11: a command that is neither a linked tap with a path nor a task of the base
\* set ends unresolved: findTask returns a falsy value, the process is not ended,
\* nothing throws, and the config is left as it was.
C11_UnknownCommandUnresolved ==
  /\ []((pc \notin {"idle", "checkLinkedTaps"} /\ ~linkedWithPath /\ ~isBuiltin(command))
          => /\ pc \in {"findTask", "validateTask", "done"}
             /\ exitCode = 0
             /\ moduleKind = "none"
             /\ pc = "done" => (~result.truthy /\ result = False))
  /\ [][(pc # "idle" /\ ~linkedWithPath /\ ~isBuiltin(command))
          => (globalConfig' = globalConfig /\ disk' = disk)]_vars

C11_Witness ==
  /\ pc = "done" /\ command = "zzz"
  /\ ~linkedWithPath /\ ~isBuiltin(command)
  /\ ~result.truthy
  /\ trace = <<"checkLink", "direct", "validate">>

\* C12: with no link for the command and the command in the base tasks, the
\* resolution returns what the direct lookup gives, and takes no step of the tap
\* path: no module is loaded, no argument is parsed, no token is inserted and the
\* injector is not called.
C12_DirectResolutionUntouched ==
  (pc \notin {"idle", "checkLinkedTaps"} /\ ~commandLink.exists /\ isBuiltin(command))
    => /\ \A i \in 1..Len(trace) : trace[i] \notin TapPathEvents
       /\ moduleKind = "none"
       /\ taskData = False
       /\ pc \in {"findTask", "validateTask", "done"}
       /\ pc = "done" =>
            /\ trace = <<"checkLink", "direct", "validate">>
            /\ result.truthy
            /\ result.task = tasks[command]
            /\ result.options = options
            /\ result.params = NoParams
            /\ result.injected = NoPath

C12_Witness ==
  /\ pc = "done" /\ command = "build"
  /\ globalConfig.kind = "map" /\ ~commandLink.exists
  /\ Len(options) = MaxOpts
  /\ result.truthy /\ result.task = TaskDef("base", "build", FALSE, FALSE)
  /\ result.options = options

\* C13: in every rerouted resolution the arguments are parsed for the task found
\* under "tap" with the parameter tap preset to the command that was invoked, so
\* the parameters of the invocation have tap = command.
C13_ParamsBindTheTap ==
  (rerouted /\ pc \in {"splice", "injectService", "findTask", "validateTask", "done"})
    => /\ Contains(trace, "parseArgs")
       /\ taskData.task = allTasks["tap"]
       /\ taskData.params = Params(command, TRUE)
       /\ pc \in {"findTask", "validateTask", "done"} => tapTaskData.params.tap = command
       /\ (pc = "done" /\ result.truthy) => result.params = Params(command, TRUE)

C13_Witness ==
  /\ pc = "done" /\ rerouted /\ command = "build"
  /\ result.truthy /\ result.task.name = "tap"
  /\ result.params = Params("build", TRUE)

\* C14: the task set of getCustomTasks has every task of the base set and every
\* task of the tap's mapping, the tap's definition winning for a name in both
\* ("tap" included); the base set is not modified; a link without a tasks entry
\* uses the base set as it is.  (Stated of the resolutions in which getCustomTasks
\* returned a task set or was not called.)
C14_MergeSemantics ==
  /\ []((linkedWithPath
           /\ moduleKind \notin {"throwLoad", "throwCall"}
           /\ pc \in {"getTask", "parseArgs", "splice", "injectService", "findTask",
                      "validateTask", "done", "threw"})
          => IF commandLink.tasks = NoTasks
               THEN /\ allTasks = tasks
                    /\ customTasks = NoCustom
                    /\ ~Contains(trace, "load")
               ELSE /\ Contains(trace, "load")
                    /\ \A n \in TaskNames :
                         /\ customTasks[n] # NoTask => allTasks[n] = customTasks[n]
                         /\ customTasks[n] = NoTask => allTasks[n] = tasks[n]
                         /\ (tasks[n] # NoTask \/ customTasks[n] # NoTask) => allTasks[n] # NoTask)
  /\ [][(pc # "idle" /\ pc' # "idle") => tasks' = tasks]_vars

C14_Witness ==
  /\ pc = "done" /\ linkedWithPath /\ commandLink.tasks # NoTasks
  /\ tasks["tap"].src = "base" /\ customTasks["tap"].src = "custom"
  /\ allTasks["tap"] = customTasks["tap"]
  /\ allTasks["build"] = customTasks["build"]
  /\ tasks["build"].src = "base"
  /\ result.truthy /\ result.task.src = "custom"

\* the number of times a collaborator was called
Count(s, e) == Cardinality({i \in 1..Len(s) : s[i] = e})

\* the position of the first call of a collaborator (0: never called)
FirstAt(s, e) == IF Contains(s, e) THEN CHOOSE i \in 1..Len(s) : s[i] = e /\ \A j \in 1..(i - 1) : s[j] # e ELSE 0

\* C15: in a rerouted resolution the injector is called once, with the invocation
\* and the link's path, exactly when the task under "tap" declares inject; it is
\* called after the arguments were parsed and the token inserted; otherwise it is
\* not called and the invocation is returned as it is.
C15_InjectionIsConditional ==
  /\ Count(trace, "inject") <= 1
  /\ Contains(trace, "inject")
       => /\ taskData.task.inject
          /\ 0 < FirstAt(trace, "parseArgs")
          /\ FirstAt(trace, "parseArgs") < FirstAt(trace, "splice")
          /\ FirstAt(trace, "splice") < FirstAt(trace, "inject")
          /\ Contains(taskData.options, tapToken(command))
          /\ taskData.params.parsed
  /\ (rerouted /\ pc \in {"findTask", "validateTask", "done"})
       => IF taskData.task.inject
            THEN /\ Count(trace, "inject") = 1
                 /\ tapTaskData = [taskData EXCEPT !.injected = commandLink.path]
            ELSE /\ Count(trace, "inject") = 0
                 /\ tapTaskData = taskData
                 /\ tapTaskData.injected = NoPath

C15_Witness ==
  /\ pc = "done" /\ rerouted
  /\ taskData.task.inject
  /\ Count(trace, "inject") = 1
  /\ result.truthy /\ result.injected = "/b"
  /\ commandLink.path = "/b"

\* C16 (as stated): a registration that finds a tasks folder without an index file
\* and is not declined writes and saves the link, and the stored link has no tasks
\* entry.  (Stated for the non-empty locations; the empty one is the case of C1.)
C16_NoIndexNoTasksEntry ==
  (last.name # "none" /\ last.fsState = "folder" /\ last.returned.ok /\ last.location # "")
    => /\ checkCustomTaskFile(last.returned.tapObj, last.fsState) = NoTasks
       /\ last.addLinkCalled /\ last.saved
       /\ disk = globalConfig
       /\ lastLink.exists
       /\ lastLink.path = last.location
       /\ lastLink.tasks = NoTasks

\* C17 (as stated): every registration that is aborted because the overwrite was
\* declined, by the operator or because silent is set, shows the canceled message
\* and changes nothing.
C17_EveryDeclineIsVisible ==
  [][(last'.name # "none" /\ ~last'.returned.ok)
       => /\ last'.canceledMsg
          /\ globalConfig' = globalConfig
          /\ disk' = disk]_vars

\* C17 (amended): a registration aborted because the operator declined the prompt
\* shows the canceled message; one aborted because silent is set shows no message;
\* in both cases the config and the saved config are left as they were.
C17_OperatorDeclineIsVisible ==
  [][(last'.name # "none" /\ ~last'.returned.ok)
       => /\ last'.canceledMsg <=> ~last'.silent
          /\ (last'.prompted /\ ~last'.answer) => last'.canceledMsg
          /\ ~last'.addLinkCalled
          /\ globalConfig' = globalConfig
          /\ disk' = disk]_vars

C17_Witness ==
  /\ last.name # "none" /\ ~last.returned.ok
  /\ last.prompted /\ ~last.answer
  /\ last.canceledMsg
  /\ lastLink = last.before

\* the option list lacks the option that the task requires
missingRequired(task, opts) == task.required /\ ~Contains(opts, RequiredToken)

\* the first call of collaborator a comes before the first call of b, when b is called
Precedes(a, b) == Contains(trace, b) => (0 < FirstAt(trace, a) /\ FirstAt(trace, a) < FirstAt(trace, b))

\* C18: the steps of a rerouted resolution come one after the other: the custom
\* tasks are loaded before the task "tap" is looked up, the lookup comes before the
\* parsing, the parsing before the insertion of the token and the injection; when
\* the parser fails on a missing required option the error leaves the resolver and
\* neither the injector nor the validator runs.
C18_StepsAreSequenced ==
  /\ \A e \in TapPathEvents \cup {"checkLink", "direct", "validate"} : Count(trace, e) <= 1
  /\ Contains(trace, "load") => FirstAt(trace, "checkLink") < FirstAt(trace, "load")
  /\ Precedes("checkLink", "getTap")
  /\ (Contains(trace, "load") /\ Contains(trace, "getTap"))
       => FirstAt(trace, "load") < FirstAt(trace, "getTap")
  /\ (linkedWithPath /\ commandLink.tasks # NoTasks /\ Contains(trace, "getTap"))
       => (Contains(trace, "load") /\ allTasks = mergeTasks(tasks, customTasks))
  /\ Precedes("getTap", "parseArgs")
  /\ Precedes("parseArgs", "splice")
  /\ Precedes("splice", "inject")
  /\ Precedes("splice", "validate") \/ ~rerouted
  /\ (Contains(trace, "parseArgs") /\ missingRequired(taskData.task, options))
       => /\ pc = "threw"
          /\ trace[Len(trace)] = "parseArgs"
          /\ ~Contains(trace, "splice")
          /\ ~Contains(trace, "inject")
          /\ ~Contains(trace, "validate")
          /\ ~Contains(trace, "direct")
          /\ result = False
          /\ tapTaskData = False

C18_Witness ==
  /\ pc = "threw" /\ trace = <<"checkLink", "load", "getTap", "parseArgs">>
  /\ missingRequired(taskData.task, options)
  /\ Len(options) > 0
  /\ result = False

\* C19: findTask does not modify the option list it is handed, whichever way it
\* ends: the token tap=<command> is in the options of the invocation it returns
\* only, and the help flag handed to validateTask is that of the last token of the
\* caller's list.
C19_OptionsNotModified ==
  /\ [][(pc # "idle" /\ pc' # "idle") => options' = options]_vars
  /\ [](pc = "done"
          => /\ helpArg = hasHelpArg(options)
             /\ ~Contains(options, tapToken(command))
             /\ (rerouted /\ result.truthy)
                  => /\ Contains(result.options, tapToken(command))
                     /\ Len(result.options) = Len(options) + 1)

C19_Witness ==
  /\ pc = "done" /\ rerouted /\ result.truthy
  /\ options = <<"--help">>
  /\ helpArg
  /\ result.options = <<tapToken(command), "--help">>

\* C20: checkTapLocation gives a link whose path is the new location and writes to
\* nothing that is stored: no step of buildTapObj changes the config, the stored
\* links change only in the step in which a call runs addTapLink, and a call that
\* does not run it leaves the link as it was.
C20_BuildLeavesStoredLink ==
  /\ [](last.name # "none"
          => /\ last.returned.ok => last.returned.tapObj.path = last.location
             /\ last.addLinkCalled = last.returned.ok)
  /\ [][(globalConfig' # globalConfig \/ disk' # disk)
          => (last'.name # "none" /\ last'.addLinkCalled /\ last'.saved /\ pc = "idle")]_vars

\* a call has passed line 111 with a new location and the stored link is as it was read
C20_Witness ==
  \E c \in BagToSet(inflight) :
    /\ c.at = "findPathByName"
    /\ c.currentTap.exists /\ Truthy(c.currentTap.path)
    /\ c.location = "/b" /\ c.currentTap.path = "/a"
    /\ getLink(globalConfig, c.name) = c.currentTap

\* C21 (as stated): after a registration that was not declined, the tasks entry of
\* the stored link is absent or is the index file under the location just
\* registered; it never is the task file of an earlier location.  (Stated for the
\* non-empty locations; the empty one is the case of C1.)
C21_NoStaleTasksEntry ==
  (last.name # "none" /\ last.returned.ok /\ last.addLinkCalled /\ last.location # "")
    => /\ lastLink.exists
       /\ lastLink.path = last.location
       /\ lastLink.tasks \in {NoTasks, IndexFile(last.location)}

\* C22: every step of a linkTap call for a name leaves the link of every other name
\* as it was, in the config and in the saved config, whatever the location, the
\* silent flag, the answer and the calls in flight with it; a container that is a
\* mapping stays one and no link in it is lost.
C22_OtherLinksUntouched ==
  [][\A m \in Names :
       /\ (getLink(globalConfig', m) # getLink(globalConfig, m) \/ getLink(disk', m) # getLink(disk, m))
            => (last'.name = m /\ last'.addLinkCalled)
       /\ (globalConfig.kind = "map") => (globalConfig'.kind = "map")
       /\ getLink(globalConfig, m).exists => getLink(globalConfig', m).exists]_vars

C22_Witness ==
  /\ last.name = "build" /\ last.addLinkCalled /\ last.saved
  /\ last.kindBefore = "map"
  /\ lastLink = TapObj("/a", NoTasks)
  /\ getLink(globalConfig, "mytap") = TapObj("/b", IndexFile("/b"))
  /\ disk = globalConfig
====
